---- MODULE Spec2Model ----
(***************************************************************************)
(* State-machine model of automon/sd_monitor.py: the SD-card monitor that  *)
(* runs a signed cart.yaml from inserted media and kills the payload when  *)
(* the media is removed.                                                   *)
(*                                                                         *)
(* The daemon is one sequential process; pc is its position in monitor().  *)
(* Payloads are independent OS processes, one process group each.          *)
(***************************************************************************)
EXTENDS Naturals, Sequences, FiniteSets

\* ------------------------------------------------------------------ bounds

\* Payload processes the daemon may launch in one run (caps the process table).
MaxSpawns == 2

\* Lines of /proc/mounts that one read of it may return.
MaxLines == 2

\* Entries of /sys/block/<dev_name> that one os.listdir may return.
MaxEntries == 2

\* get_mount_point(device_node, timeout=5)
timeout == 5

\* ------------------------------------------------------------- value sets

NoNode == "None"
NoMount == "None"
NoUser == "None"
NoEvent == <<>>
NoProc == 0

\* Device nodes of removable card readers the daemon supervises.
Nodes == {"/dev/mmcblk0", "/dev/sda"}
\* Every device_node a block-subsystem notification may carry.
AllNodes == Nodes \cup {"/dev/nvme0n1", NoNode}
\* Where /proc/mounts may report a candidate of the device mounted.
MountsOf(node) ==
  IF node = "/dev/mmcblk0" THEN {"/media/cart"} ELSE {"/mnt/sd"}
\* Accounts --user may name.
Users == {"player"}
\* The identity the daemon itself runs under.
DaemonIdentity == "daemon"

\* "mmcblk" in node
HasMmcblk(node) == node = "/dev/mmcblk0"
\* node.startswith("/dev/sd")
StartsWithDevSd(node) == node = "/dev/sda"

\* A udev block device as the monitor reads it.
Devices ==
  [ device_node : AllNodes,
    device_type : {"disk", "partition"},
    action : {"add", "remove", "change", "bind"},
    ID_BUS : {"usb", "ata"},
    removable : {"1", "0", "unreadable"},
    ID_PART_TABLE_TYPE : BOOLEAN,
    ID_FS_TYPE : BOOLEAN,
    size : {"unreadable", "0", "8"} ]

\* ------------------------------------------------------------- classifier

is_sd_card(device) ==
  IF device.device_node = NoNode \/ device.device_type # "disk" THEN FALSE
  ELSE IF HasMmcblk(device.device_node) THEN TRUE
  ELSE IF StartsWithDevSd(device.device_node)
            /\ (device.ID_BUS = "usb" \/ device.removable = "1") THEN TRUE
  ELSE FALSE

has_media(device) ==
  IF device.ID_PART_TABLE_TYPE THEN TRUE
  ELSE IF device.ID_FS_TYPE THEN TRUE
  ELSE device.size = "8"

\* Faulty variant: a change is taken for an insert whatever has_media says.
classify_change_inserts(device) ==
  IF ~is_sd_card(device) THEN NoEvent
  ELSE IF device.action = "add" THEN <<"insert", device.device_node>>
  ELSE IF device.action = "remove" THEN <<"remove", device.device_node>>
  ELSE IF device.action = "change" THEN <<"insert", device.device_node>>
  ELSE NoEvent

\* Lines 246-256 of monitor: the classified event of a notification, or NoEvent
\* when the notification is skipped.
classify(device) ==
  IF ~is_sd_card(device) THEN NoEvent
  ELSE IF device.action = "add" THEN <<"insert", device.device_node>>
  ELSE IF device.action = "remove" THEN <<"remove", device.device_node>>
  ELSE IF device.action = "change"
    THEN <<IF has_media(device) THEN "insert" ELSE "remove", device.device_node>>
  ELSE NoEvent

\* What the notifications of Devices classify to.
Classified == {classify(device) : device \in Devices}

\* ---------------------------------------------------------- mount resolver

Range(seq) == {seq[i] : i \in DOMAIN seq}

\* Sequences without repetition of at most n elements of S.
DistinctSeqs(S, n) ==
  {seq \in UNION {[1..k -> S] : k \in 0..n} :
     \A i, j \in DOMAIN seq : i # j => seq[i] # seq[j]}

\* device_node.split("/")[-1]
dev_name(node) == IF node = "/dev/mmcblk0" THEN "mmcblk0" ELSE "sda"

\* Names os.listdir("/sys/block/" + dev_name) may hold: an attribute
\* directory and the device's two partitions.
SysEntries(name) ==
  IF name = "mmcblk0" THEN {"queue", "mmcblk0p1", "mmcblk0p2"}
  ELSE {"queue", "sda1", "sda2"}

\* entry.startswith(dev_name)
startswith(entry, name) ==
  IF name = "mmcblk0" THEN entry \in {"mmcblk0p1", "mmcblk0p2"}
  ELSE entry \in {"sda1", "sda2"}

\* "/dev/" + entry
DevPath(entry) ==
  CASE entry = "mmcblk0p1" -> "/dev/mmcblk0p1"
    [] entry = "mmcblk0p2" -> "/dev/mmcblk0p2"
    [] entry = "sda1" -> "/dev/sda1"
    [] entry = "sda2" -> "/dev/sda2"
    [] OTHER -> "/dev/queue"

\* What one os.listdir of the device's sysfs entry gives: OSError, or the
\* names in the order the call returns them.
AllListings ==
  [name \in {dev_name(n) : n \in Nodes} |->
     {[ok |-> FALSE, entries |-> <<>>]}
       \cup {[ok |-> TRUE, entries |-> e] :
               e \in DistinctSeqs(SysEntries(name), MaxEntries)}]
Listings(name) == AllListings[name]

\* The lines /proc/mounts may hold: the root file system, and the device or
\* a partition of it, each at its own mount path.
MountLines(node) ==
  { [device |-> "/dev/root", path |-> "/"],
    [device |-> node, path |-> "/mnt/raw"],
    [device |-> DevPath(IF node = "/dev/mmcblk0" THEN "mmcblk0p1" ELSE "sda1"),
     path |-> "/mnt/p1"],
    [device |-> DevPath(IF node = "/dev/mmcblk0" THEN "mmcblk0p2" ELSE "sda2"),
     path |-> "/mnt/p2"] }

\* What one read of /proc/mounts gives: IOError, or its lines in file order.
AllTables ==
  [node \in Nodes |->
     {[ok |-> FALSE, lines |-> <<>>]}
       \cup {[ok |-> TRUE, lines |-> l] :
               l \in DistinctSeqs(MountLines(node), MaxLines)}]
Tables(node) == AllTables[node]

\* The "/dev/" + entry of the entries one listing holds that start with the
\* device's name, in listing order; none when os.listdir raised OSError.
found_partitions(node, listing) ==
  LET keep(entry) == startswith(entry, dev_name(node))
      sel == SelectSeq(listing.entries, keep)
  IN [i \in DOMAIN sel |-> DevPath(sel[i])]

\* partitions.append for each found partition.  The list is kept up to
\* repetition (a partition listed again on a later poll is appended again in
\* the code; only membership in the list is ever used).
RECURSIVE extend(_, _)
extend(partitions, found) ==
  IF found = <<>> THEN partitions
  ELSE extend(IF Head(found) \in Range(partitions) THEN partitions
              ELSE Append(partitions, Head(found)),
              Tail(found))

\* The partitions list after the first half of one iteration of the loop of
\* get_mount_point: it is never reset, and becomes [device_node] when empty.
candidates(partitions, node, listing) ==
  LET appended == extend(partitions, found_partitions(node, listing))
  IN IF appended = <<>> THEN <<node>> ELSE appended

\* Faulty variant: the candidates are tried in their own order and the table is
\* searched for each.
first_mounted_by_candidate(table, partitions) ==
  LET mounted(i) == \E k \in DOMAIN table.lines :
                      table.lines[k].device = partitions[i]
      hits == {i \in DOMAIN partitions : mounted(i)}
  IN IF ~table.ok \/ hits = {} THEN NoMount
     ELSE LET i == CHOOSE h \in hits : \A g \in hits : h <= g
              k == CHOOSE k \in DOMAIN table.lines :
                     table.lines[k].device = partitions[i]
          IN table.lines[k].path

\* The second half of the iteration: "for line in f: if parts[0] in
\* partitions: return parts[1]", or nothing found (also on IOError).
first_mounted(table, partitions) ==
  LET hits == {k \in DOMAIN table.lines :
                 table.lines[k].device \in Range(partitions)}
  IN IF ~table.ok \/ hits = {} THEN NoMount
     ELSE table.lines[CHOOSE h \in hits : \A g \in hits : h <= g].path

\* ------------------------------------------------- what an insert observes

\* Outcomes of running the external verifier (ssh-keygen -Y verify): exit 0,
\* nonzero exit (CalledProcessError), or the program cannot be started at all
\* (check_call raises OSError, which verify_cart_signature does not catch).
VerifierResults == {"exit0", "nonzero", "unavailable"}
\* Outcomes of yaml.safe_load on cart.yaml: a mapping with "exec", an empty
\* document or a mapping without "exec", or a YAMLError.
YamlResults == {"exec", "noexec", "malformed"}

\* The answers the file system, the verifier and the account database give to
\* one call of start_cart_process.
Observations ==
  [ cart : BOOLEAN,        \* os.path.exists(cart_path)
    sig : BOOLEAN,         \* os.path.exists(sig_path)
    trust : BOOLEAN,       \* os.path.exists(TRUSTED_PUBKEY)
    verifier : VerifierResults,
    yaml : YamlResults,
    user_ok : BOOLEAN ]    \* pwd.getpwnam(run_as_user) finds the account

\* What the signature check meets (sig, trust, verifier) varies freely for a
\* cart.yaml that exists.  The reads start_cart_process makes only after an
\* earlier one passed (everything after a missing cart.yaml; the manifest
\* after an untrusted verdict; the account after a manifest without exec or
\* without run_as_user) are recorded in one fixed way when they are not made,
\* as the answer that would let execution go on.
OnlyRead(obs, user) ==
  /\ (~obs.cart => obs.sig /\ obs.trust /\ obs.verifier = "exit0")
  /\ (~(obs.sig /\ obs.trust /\ obs.verifier = "exit0") => obs.yaml = "exec")
  /\ ((obs.yaml # "exec" \/ user = NoUser) => obs.user_ok)

ObservationsFor(user) == {obs \in Observations : OnlyRead(obs, user)}

\* The value of io while no insert has got as far as start_cart_process.
NoObservation ==
  [cart |-> FALSE, sig |-> TRUE, trust |-> TRUE, verifier |-> "exit0",
   yaml |-> "exec", user_ok |-> TRUE]

\* ---------------------------------------------------------- trust verifier

\* Faulty variant: the verifier's nonzero exit (CalledProcessError) is swallowed and
\* the function goes on to return True.
verify_accepts_rejected(obs) ==
  IF ~obs.sig THEN [ret |-> "False", out |-> <<"ERROR: cart.yaml.sig missing">>]
  ELSE IF ~obs.trust
    THEN [ret |-> "False", out |-> <<"ERROR: Trusted public key missing">>]
  ELSE IF obs.verifier \in {"exit0", "nonzero"}
    THEN [ret |-> "True", out |-> <<"Signature verification OK">>]
  ELSE [ret |-> "raise", out |-> <<>>]

\* Faulty variant: every refusal prints the same line.
verify_one_reason(obs) ==
  IF ~obs.sig
    THEN [ret |-> "False", out |-> <<"ERROR: Signature verification FAILED">>]
  ELSE IF ~obs.trust
    THEN [ret |-> "False", out |-> <<"ERROR: Signature verification FAILED">>]
  ELSE IF obs.verifier = "exit0"
    THEN [ret |-> "True", out |-> <<"Signature verification OK">>]
  ELSE IF obs.verifier = "nonzero"
    THEN [ret |-> "False", out |-> <<"ERROR: Signature verification FAILED">>]
  ELSE [ret |-> "raise", out |-> <<>>]

\* verify_cart_signature: returns [ret, out] where ret is "True", "False" or
\* "raise" (an exception other than CalledProcessError leaves the function).
verify_cart_signature(obs) ==
  IF ~obs.sig THEN [ret |-> "False", out |-> <<"ERROR: cart.yaml.sig missing">>]
  ELSE IF ~obs.trust
    THEN [ret |-> "False", out |-> <<"ERROR: Trusted public key missing">>]
  ELSE IF obs.verifier = "exit0"
    THEN [ret |-> "True", out |-> <<"Signature verification OK">>]
  ELSE IF obs.verifier = "nonzero"
    THEN [ret |-> "False", out |-> <<"ERROR: Signature verification FAILED">>]
  ELSE [ret |-> "raise", out |-> <<>>]

\* ------------------------------------------------------ process supervisor

\* Faulty variant: cwd is not passed and the payload starts in the daemon's
\* working directory.
Popen_in_daemon_cwd(cwd, uid, node, obs) ==
  [ device_node |-> node, state |-> "running", signals |-> <<>>,
    killed |-> FALSE, cwd |-> "/", uid |-> uid,
    sig |-> obs.sig, trust |-> obs.trust, verifier |-> obs.verifier ]

\* subprocess.Popen(script, shell=True, cwd=..., start_new_session=True,
\* preexec_fn=..., env=...): the new process group as the OS holds it.
\*   state    "running"  the group leader (the shell) has not exited
\*            "orphaned" the leader has exited, descendants it forked into
\*                       the group are still running
\*            "gone"     no process of the group is running
\*   signals  the signals the daemon sent to the group, in order
\*   killed   kill_cart_process has been called on it
\*   sig, trust, verifier  what verification observed in the insert handling
\*            that launched it
Popen(cwd, uid, node, obs) ==
  [ device_node |-> node, state |-> "running", signals |-> <<>>,
    killed |-> FALSE, cwd |-> cwd, uid |-> uid,
    sig |-> obs.sig, trust |-> obs.trust, verifier |-> obs.verifier ]

\* Faulty variant: an unknown account is ignored and the payload keeps the daemon's
\* identity.
resolve_user_fallback(user, obs) ==
  IF user = NoUser THEN DaemonIdentity
  ELSE IF obs.user_ok THEN user
  ELSE DaemonIdentity

\* "pw = pwd.getpwnam(run_as_user)" under "if run_as_user:": the identity the
\* payload is to run under, or "raise" when getpwnam raises KeyError.
resolve_user(user, obs) ==
  IF user = NoUser THEN DaemonIdentity
  ELSE IF obs.user_ok THEN user
  ELSE "raise"

\* Faulty variant: a manifest without "exec" is not turned away and an empty
\* command is launched.
start_cart_process_without_exec(mount, user, node, obs) ==
  IF ~obs.cart
    THEN [kind |-> "None", out |-> <<"No cart.yaml detected">>, exc |-> "none"]
  ELSE LET v == verify_cart_signature(obs)
           found == <<"Found cart.yaml">> IN
    IF v.ret = "raise"
      THEN [kind |-> "raise", out |-> found \o v.out, exc |-> "OSError"]
    ELSE IF v.ret = "False"
      THEN [kind |-> "None", exc |-> "none",
            out |-> found \o v.out \o <<"Execution blocked (untrusted cart)">>]
    ELSE IF obs.yaml = "malformed"
      THEN [kind |-> "raise", out |-> found \o v.out, exc |-> "YAMLError"]
    ELSE IF resolve_user(user, obs) = "raise"
      THEN [kind |-> "raise", out |-> found \o v.out, exc |-> "KeyError"]
    ELSE [kind |-> "proc", exc |-> "none",
          out |-> found \o v.out \o <<"Executing">>,
          child |-> Popen(mount, resolve_user(user, obs), node, obs)]

\* start_cart_process: returns [kind, out, exc, child]:
\*   kind "None"   returned None
\*        "raise"  an exception (exc) left the function
\*        "proc"   returned the Popen object of child
start_cart_process(mount, user, node, obs) ==
  IF ~obs.cart
    THEN [kind |-> "None", out |-> <<"No cart.yaml detected">>, exc |-> "none"]
  ELSE LET v == verify_cart_signature(obs)
           found == <<"Found cart.yaml">> IN
    IF v.ret = "raise"
      THEN [kind |-> "raise", out |-> found \o v.out, exc |-> "OSError"]
    ELSE IF v.ret = "False"
      THEN [kind |-> "None", exc |-> "none",
            out |-> found \o v.out \o <<"Execution blocked (untrusted cart)">>]
    ELSE IF obs.yaml = "malformed"
      THEN [kind |-> "raise", out |-> found \o v.out, exc |-> "YAMLError"]
    ELSE IF obs.yaml = "noexec"
      THEN [kind |-> "None", exc |-> "none",
            out |-> found \o v.out \o <<"No 'exec' field in cart.yaml">>]
    ELSE IF resolve_user(user, obs) = "raise"
      THEN [kind |-> "raise", out |-> found \o v.out, exc |-> "KeyError"]
    ELSE [kind |-> "proc", exc |-> "none",
          out |-> found \o v.out \o <<"Executing">>,
          child |-> Popen(mount, resolve_user(user, obs), node, obs)]

\* How a running group answers SIGTERM during proc.wait(timeout=3):
\*   "exits"        every process of the group exits
\*   "leader_exits" the leader exits, descendants that ignore SIGTERM stay
\*   "ignores"      the leader is still running when the wait times out
Responses == {"exits", "leader_exits", "ignores"}

\* Faulty variant: SIGKILL follows SIGTERM without regard to the wait.
kill_always_forces(p, resp) ==
  IF p.state = "running"
    THEN [p EXCEPT !.killed = TRUE, !.signals = @ \o <<"SIGTERM", "SIGKILL">>,
                   !.state = "gone"]
  ELSE [p EXCEPT !.killed = TRUE]

\* kill_cart_process(proc) on process-table entry p.  proc.poll() is None only
\* while the leader has not exited; otherwise nothing is signalled.  An
\* unreaped leader keeps its process group in existence, so killpg does not
\* raise ProcessLookupError here.
kill_cart_process(p, resp) ==
  IF p.state = "running"
    THEN IF resp = "exits"
      THEN [p EXCEPT !.killed = TRUE, !.signals = @ \o <<"SIGTERM">>,
                     !.state = "gone"]
    ELSE IF resp = "leader_exits"
      THEN [p EXCEPT !.killed = TRUE, !.signals = @ \o <<"SIGTERM">>,
                     !.state = "orphaned"]
    ELSE [p EXCEPT !.killed = TRUE, !.signals = @ \o <<"SIGTERM", "SIGKILL">>,
                   !.state = "gone"]
  ELSE [p EXCEPT !.killed = TRUE]

\* "for proc in running_processes.values(): kill_cart_process(proc)" of the
\* KeyboardInterrupt handler; resp[n] is how the group tracked under n answers.
kill_all(running, ps, resp) ==
  [p \in DOMAIN ps |->
     IF \E n \in Nodes : running[n] = p
       THEN kill_cart_process(ps[p], resp[(CHOOSE n \in Nodes : running[n] = p)])
       ELSE ps[p]]

\* The ways the tracked groups may answer the handler's SIGTERMs: one answer
\* for each device whose tracked group is signalled at all.
AnswersOf(running, ps) ==
  {resp \in [Nodes -> Responses] :
     \A n \in Nodes :
       (running[n] = NoProc \/ ps[running[n]].state # "running")
         => resp[n] = "exits"}

\* ------------------------------------------------------------- dispatcher

\* Faulty variant: no event is taken for a duplicate.
is_duplicate_never(event, last) == FALSE

\* "if event == last_event: continue"
is_duplicate(event, last) == event = last

\* Faulty variant: a notification that is filtered out clears the last-seen
\* pair.
next_last_event_cleared(event, last) ==
  IF event = NoEvent THEN NoEvent ELSE event

\* last_event after one notification: "continue" for a device that is not an
\* SD card, for an action other than add/remove/change and for a duplicate;
\* "last_event = event" otherwise.
next_last_event(event, last) ==
  IF event = NoEvent \/ is_duplicate(event, last) THEN last ELSE event

\* Faulty variant: the loop runs once more, range(timeout * 2 + 1).
last_poll_one_more(n) == n + 1 >= timeout * 2 + 1

\* "for _ in range(timeout * 2)": the poll made after n failed ones is the
\* last of the loop.
last_poll(n) == n + 1 >= timeout * 2

\* Faulty variant: the cart is looked up but its key stays in the dict.
pop_keeps(running, node) == running

\* running_processes.pop(device_node)
pop(running, node) == [running EXCEPT ![node] = NoProc]

\* running_processes[device_node] = proc
register(running, node, p) == [running EXCEPT ![node] = p]

\* ------------------------------------------------------------------ state

VARIABLES
  pc,                 \* where monitor() is: "poll" at monitor.poll, "mount" in
                      \* get_mount_point, "start" before start_cart_process,
                      \* "register" before running_processes[...] = proc,
                      \* "kill" before kill_cart_process of a popped cart,
                      \* "stopped" / "returned" / "crashed" once it has ended
  run_as_user,        \* --user, or NoUser
  last_event,
  running_processes,  \* device_node -> pid, NoProc where the dict has no key
  procs,              \* the payload process groups launched so far, by pid
  device_node,        \* locals of the event being handled
  mount_point,
  proc,
  polls,              \* polls of get_mount_point that found nothing
  io,                 \* what start_cart_process observes for this insert
  log,                \* lines printed while handling the latest event
  exc,                \* the exception that ended monitor(), "none" if none
  arrived,            \* history: classify() of the latest notification
  prev_classified,    \* history: the latest classified event delivered
  repeated,           \* history: the latest notification classified to the
                      \* same event as the classified event before it
  args,               \* a function called on its own: its name and arguments
  frame,              \* ... the locals of its loop, if it has one
  result              \* ... and what it returned

\* The state of the daemon.
daemon == <<pc, run_as_user, last_event, running_processes, procs, device_node,
            mount_point, proc, polls, io, log, exc, arrived, prev_classified,
            repeated>>

\* The state of a function called on its own; the daemon's run has none.
calls == <<args, frame, result>>

vars == <<daemon, calls>>

NoCall == [fn |-> "none"]
NoFrame ==
  [attempt |-> 0, partitions |-> <<>>,
   listing |-> [ok |-> TRUE, entries |-> <<>>],
   table |-> [ok |-> TRUE, lines |-> <<>>]]
Pending == [done |-> FALSE]

history == <<arrived, prev_classified, repeated>>

locals == <<device_node, mount_point, proc, polls>>

InitDaemon ==
  /\ pc = "poll"
  /\ run_as_user \in {NoUser} \cup Users
  /\ last_event = NoEvent
  /\ running_processes = [n \in Nodes |-> NoProc]
  /\ procs = <<>>
  /\ device_node = NoNode
  /\ mount_point = NoMount
  /\ proc = NoProc
  /\ polls = 0
  /\ io = NoObservation
  /\ log = <<>>
  /\ exc = "none"
  /\ arrived = NoEvent
  /\ prev_classified = NoEvent
  /\ repeated = FALSE

Init ==
  /\ InitDaemon
  /\ args = NoCall
  /\ frame = NoFrame
  /\ result = Pending

\* The positions inside "try: for device in iter(monitor.poll, None): ...".
InLoop == {"poll", "mount", "start", "register", "kill"}

\* Once monitor() has ended, the dispatcher's last_event and locals no longer
\* exist and no further notification is classified: they, and the history of
\* classification, are left at their initial values.  running_processes is
\* kept: it names the carts that were tracked when monitor() ended.
Forgotten ==
  /\ last_event' = NoEvent
  /\ device_node' = NoNode
  /\ mount_point' = NoMount
  /\ proc' = NoProc
  /\ polls' = 0
  /\ arrived' = NoEvent
  /\ prev_classified' = NoEvent
  /\ repeated' = FALSE

\* ---------------------------------------------------------------- actions

\* One notification from monitor.poll, up to the call the event leads to:
\* filter, classify, drop a duplicate, record last_event; an insert goes on to
\* get_mount_point, a remove pops the cart of the device, if it has one.
Notify ==
  /\ pc = "poll"
  /\ \E event \in Classified :
       /\ arrived' = event
       /\ prev_classified' = IF event = NoEvent THEN prev_classified ELSE event
       /\ repeated' = (event # NoEvent /\ event = prev_classified)
       /\ last_event' = next_last_event(event, last_event)
       /\ IF event = NoEvent \/ is_duplicate(event, last_event)
            THEN UNCHANGED <<pc, running_processes, locals, io, log>>
          ELSE
            /\ io' = NoObservation
            /\ IF event[1] = "insert"
                 THEN /\ pc' = "mount"
                      /\ device_node' = event[2]
                      /\ log' = <<"SD card inserted">>
                      /\ UNCHANGED <<running_processes, mount_point, proc, polls>>
               ELSE IF running_processes[event[2]] # NoProc
                 THEN /\ pc' = "kill"
                      /\ device_node' = event[2]
                      /\ proc' = running_processes[event[2]]
                      /\ running_processes' = pop(running_processes, event[2])
                      /\ log' = <<"SD card removed">>
                      /\ UNCHANGED <<mount_point, polls>>
               ELSE /\ log' = <<"SD card removed">>
                    /\ UNCHANGED <<pc, running_processes, locals>>
  /\ UNCHANGED <<calls, run_as_user, procs, exc>>

\* One iteration of the polling loop of get_mount_point: a candidate of the
\* device is in /proc/mounts (at m) or none is; after timeout * 2 empty polls
\* it returns None and the dispatcher prints "Card not mounted".
MountPoll ==
  /\ pc = "mount"
  /\ \E m \in MountsOf(device_node) \cup {NoMount} :
       IF m # NoMount
         THEN /\ mount_point' = m
              /\ pc' = "start"
              /\ polls' = 0
              /\ io' \in ObservationsFor(run_as_user)
              /\ UNCHANGED <<device_node, log>>
       ELSE IF ~last_poll(polls)
         THEN /\ polls' = polls + 1
              /\ UNCHANGED <<pc, device_node, mount_point, io, log>>
       ELSE /\ pc' = "poll"
            /\ polls' = 0
            /\ device_node' = NoNode
            /\ log' = log \o <<"Card not mounted">>
            /\ UNCHANGED <<mount_point, io>>
  /\ UNCHANGED <<calls, run_as_user, last_event, running_processes, procs, proc, exc,
                 history>>

\* proc = start_cart_process(mount_point, run_as_user); an exception that
\* leaves it is caught nowhere in monitor() (only KeyboardInterrupt is).
StartCart ==
  /\ pc = "start"
  /\ LET r == start_cart_process(mount_point, run_as_user, device_node, io) IN
       /\ log' = log \o r.out
       /\ IF r.kind = "proc"
            THEN /\ Len(procs) < MaxSpawns
                 /\ procs' = Append(procs, r.child)
                 /\ proc' = Len(procs) + 1
                 /\ pc' = "register"
                 /\ UNCHANGED <<device_node, mount_point, exc>>
          ELSE IF r.kind = "None"
            THEN /\ pc' = "poll"
                 /\ device_node' = NoNode
                 /\ mount_point' = NoMount
                 /\ UNCHANGED <<procs, proc, exc>>
          ELSE /\ pc' = "crashed"
               /\ exc' = r.exc
               /\ UNCHANGED <<procs, proc, device_node, mount_point>>
  /\ UNCHANGED <<calls, run_as_user, last_event, running_processes, polls, io,
                 history>>

\* "if proc: running_processes[device_node] = proc"
Register ==
  /\ pc = "register"
  /\ running_processes' = register(running_processes, device_node, proc)
  /\ pc' = "poll"
  /\ device_node' = NoNode
  /\ mount_point' = NoMount
  /\ proc' = NoProc
  /\ UNCHANGED <<calls, run_as_user, last_event, procs, polls, io, log, exc,
                 history>>

\* kill_cart_process(<the popped cart>) of a remove.
KillRemoved ==
  /\ pc = "kill"
  /\ \E resp \in IF procs[proc].state = "running" THEN Responses ELSE {"exits"} :
       procs' = [procs EXCEPT ![proc] = kill_cart_process(@, resp)]
  /\ pc' = "poll"
  /\ device_node' = NoNode
  /\ proc' = NoProc
  /\ UNCHANGED <<calls, run_as_user, last_event, running_processes, mount_point, polls,
                 io, log, exc, history>>

\* KeyboardInterrupt anywhere inside the try block, and its handler.
Interrupt ==
  /\ pc \in InLoop
  /\ \E resp \in AnswersOf(running_processes, procs) :
       procs' = kill_all(running_processes, procs, resp)
  /\ pc' = "stopped"
  /\ log' = <<"Stopping...", "Stopped.">>
  /\ Forgotten
  /\ io' = NoObservation
  /\ UNCHANGED <<calls, run_as_user, running_processes, exc>>

\* The notification source fails: iter(monitor.poll, None) ends (the loop and
\* monitor() finish normally) or monitor.poll raises (nothing catches it).
BusFail ==
  /\ pc = "poll"
  /\ \E how \in {"ends", "raises"} :
       /\ pc' = IF how = "ends" THEN "returned" ELSE "crashed"
       /\ exc' = IF how = "ends" THEN "none" ELSE "BusError"
  /\ Forgotten
  /\ io' = NoObservation
  /\ log' = <<>>
  /\ UNCHANGED <<calls, run_as_user, running_processes, procs>>

\* The payload's shell exits by itself, leaving descendants behind or not.
LeaderExits ==
  /\ pc \in InLoop
  /\ \E p \in DOMAIN procs, left \in {"orphaned", "gone"} :
       /\ procs[p].state = "running"
       /\ procs' = [procs EXCEPT ![p].state = left]
  /\ UNCHANGED <<calls, pc, run_as_user, last_event, running_processes, locals, io,
                 log, exc, history>>

\* The descendants a payload left behind exit by themselves.
OrphansExit ==
  /\ pc \in InLoop
  /\ \E p \in DOMAIN procs :
       /\ procs[p].state = "orphaned"
       /\ procs' = [procs EXCEPT ![p].state = "gone"]
  /\ UNCHANGED <<calls, pc, run_as_user, last_event, running_processes, locals, io,
                 log, exc, history>>

Next ==
  \/ Notify
  \/ MountPoll
  \/ StartCart
  \/ Register
  \/ KillRemoved
  \/ Interrupt
  \/ BusFail
  \/ LeaderExits
  \/ OrphansExit

Spec == Init /\ [][Next]_vars

\* The exit status of the program: an uncaught exception ends Python with
\* status 1, a return from monitor() with status 0.
ExitStatus == IF pc = "crashed" THEN 1 ELSE 0

TypeOK ==
  /\ pc \in InLoop \cup {"stopped", "returned", "crashed"}
  /\ Len(procs) <= MaxSpawns
  /\ \A n \in Nodes : running_processes[n] \in {NoProc} \cup DOMAIN procs

\* ------------------------------------------------- functions on their own

\* Process-table entries kill_cart_process may be handed: a payload whose
\* shell still runs, one whose shell has exited leaving descendants, and one
\* whose group is gone.
Payloads ==
  {[Popen(CHOOSE m \in MountsOf(n) : TRUE, DaemonIdentity, n, NoObservation)
      EXCEPT !.state = st] :
     n \in Nodes, st \in {"running", "orphaned", "gone"}}

\* The calls examined on their own: the classification of one notification,
\* one kill_cart_process, one get_mount_point.
Calls ==
  {[fn |-> "classify", device |-> d] : d \in Devices}
    \cup {[fn |-> "kill_cart_process", proc |-> p, answer |-> r] :
            p \in Payloads, r \in Responses}
    \cup {[fn |-> "get_mount_point", device_node |-> n] : n \in Nodes}

InitCalls ==
  /\ InitDaemon
  /\ run_as_user = NoUser
  /\ args \in Calls
  /\ frame = NoFrame
  /\ result = Pending

CallClassify ==
  /\ args.fn = "classify"
  /\ ~result.done
  /\ result' = [done |-> TRUE, value |-> classify(args.device)]
  /\ UNCHANGED <<daemon, args, frame>>

CallKill ==
  /\ args.fn = "kill_cart_process"
  /\ ~result.done
  /\ result' = [done |-> TRUE,
                value |-> kill_cart_process(args.proc, args.answer)]
  /\ UNCHANGED <<daemon, args, frame>>

\* One iteration of the loop of get_mount_point, with the return after the
\* last one.
PollMounts ==
  /\ args.fn = "get_mount_point"
  /\ ~result.done
  /\ \E listing \in Listings(dev_name(args.device_node)),
        table \in Tables(args.device_node) :
       LET partitions == candidates(frame.partitions, args.device_node, listing)
           m == first_mounted(table, partitions)
       IN /\ frame' = [attempt |-> frame.attempt + 1,
                       partitions |-> partitions,
                       listing |-> listing, table |-> table]
          /\ result' = IF m # NoMount THEN [done |-> TRUE, value |-> m]
                       ELSE IF last_poll(frame.attempt)
                         THEN [done |-> TRUE, value |-> NoMount]
                       ELSE Pending
  /\ UNCHANGED <<daemon, args>>

NextCalls ==
  \/ CallClassify
  \/ CallKill
  \/ PollMounts

SpecCalls == InitCalls /\ [][NextCalls]_vars

\* ----------------------------------------------------------------- claims

Spawned == DOMAIN procs
Tracked == {running_processes[n] : n \in Nodes} \ {NoProc}
GroupAlive(p) == procs[p].state # "gone"
UntrustedInsert ==
  ~io.sig \/ ~io.trust \/ io.verifier = "nonzero"
NothingLaunched ==
  /\ Len(procs') = Len(procs)
  /\ running_processes' = running_processes
\* A step of the event loop that hands a classified event to the dispatcher.
Delivers == pc = "poll" /\ pc' \in InLoop /\ arrived' # NoEvent

\* C1: every payload process ever launched, and every registered cart, was
\* launched by an insert whose signature check saw the signature file, the
\* trusted-signer file and exit 0 of the verifier; and a start_cart_process
\* that sees a missing signature, a missing trusted-signer file or a nonzero
\* exit launches nothing and registers nothing.
C1_SpawnOnlyWhenTrusted ==
  /\ [](\A p \in Spawned :
          procs[p].sig /\ procs[p].trust /\ procs[p].verifier = "exit0")
  /\ [](Tracked \subseteq Spawned)
  /\ [][(pc = "start" /\ UntrustedInsert) => NothingLaunched]_vars

\* C1 witness: one cart runs, and a later insert whose trusted-signer file is
\* missing has been blocked without a launch.
C1_Witness ==
  /\ pc = "poll"
  /\ io.cart /\ io.sig /\ ~io.trust
  /\ log = <<"SD card inserted", "Found cart.yaml",
             "ERROR: Trusted public key missing",
             "Execution blocked (untrusted cart)">>
  /\ Len(procs) = 1
  /\ Tracked = {1}

\* C2 (as claimed): for every device node at most one payload process group
\* spawned for it is live, i.e. still has a running process and has not been
\* given to kill_cart_process.
C2_AtMostOneLivePerNode ==
  \A n \in Nodes :
    Cardinality({p \in Spawned : /\ procs[p].device_node = n
                                 /\ ~procs[p].killed
                                 /\ GroupAlive(p)}) <= 1

\* C3: a classified event equal to the classified event before it is
\* discarded: the loop stays at monitor.poll, last_event and the mapping are
\* unchanged, no process is launched and no group is signalled or killed.
C3_DuplicateDiscarded ==
  [][(Delivers /\ arrived' = prev_classified) =>
       /\ pc' = "poll"
       /\ last_event' = last_event
       /\ NothingLaunched
       /\ \A p \in Spawned : /\ procs'[p].signals = procs[p].signals
                             /\ procs'[p].killed = procs[p].killed]_vars

\* C3 witness: an insert has launched one process and the same insert has
\* been delivered again, with still one process.
C3_Witness ==
  /\ pc = "poll"
  /\ repeated
  /\ arrived # NoEvent /\ arrived[1] = "insert"
  /\ Len(procs) = 1
  /\ running_processes[arrived[2]] = 1

\* C4 (as claimed): when the handling of a remove of a device with a cart is
\* over, no process of that cart's group is running.
C4_RemoveKillsGroup ==
  [][(pc = "kill" /\ pc' = "poll") => procs'[proc].state = "gone"]_vars

\* C5: a remove that is not a duplicate leaves the mapping without an entry
\* for its device node and with every other entry as it was, at once and until
\* its handling is over.
C5_RemoveUnmaps ==
  /\ [][(Delivers /\ arrived'[1] = "remove" /\ arrived' # prev_classified) =>
          /\ running_processes'[arrived'[2]] = NoProc
          /\ \A n \in Nodes \ {arrived'[2]} :
               running_processes'[n] = running_processes[n]]_vars
  /\ [][pc = "kill" =>
          /\ running_processes[device_node] = NoProc
          /\ running_processes' = running_processes]_vars

\* C5 witness: a remove of a device with a cart is being handled, its entry
\* is gone and the cart of the other device is still registered.
C5_Witness ==
  /\ pc = "kill"
  /\ arrived = <<"remove", device_node>>
  /\ proc # NoProc
  /\ running_processes[device_node] = NoProc
  /\ \E n \in Nodes \ {device_node} : running_processes[n] # NoProc

\* C6 (as claimed): when monitor() has returned after an interrupt, no
\* process group that was in the mapping is still running.
C6_ShutdownKillsTracked ==
  pc = "stopped" => \A p \in Tracked : ~GroupAlive(p)

\* C7 (as claimed): when the notification source has failed, every tracked
\* cart has been given to kill_cart_process and the exit status is not zero.
C7_BusFailureKillsAndFails ==
  (pc = "returned" \/ (pc = "crashed" /\ exc = "BusError")) =>
     /\ \A p \in Tracked : procs[p].killed
     /\ ExitStatus # 0

\* C8: a start_cart_process with run_as_user given and the account unknown
\* launches nothing and registers nothing, and every payload launched while
\* run_as_user is given runs as that account, never as the daemon.
C8_NoSpawnForUnknownUser ==
  /\ [][(pc = "start" /\ run_as_user # NoUser /\ ~io.user_ok) =>
          NothingLaunched]_vars
  /\ [](run_as_user # NoUser =>
          \A p \in Spawned : procs[p].uid = run_as_user)

\* C8 witness: with one cart running as the account, a later trusted insert
\* found the account unknown and ended without a second process.
C8_Witness ==
  /\ pc = "crashed"
  /\ exc = "KeyError"
  /\ run_as_user # NoUser
  /\ io.cart /\ io.sig /\ io.trust /\ io.verifier = "exit0" /\ io.yaml = "exec"
  /\ ~io.user_ok
  /\ Len(procs) = 1
  /\ Tracked = {1}

\* C9 (as claimed): an unknown run_as_user account ends only that spawn
\* attempt: unless interrupted, the loop is back at monitor.poll with the
\* mapping unchanged.
C9_UnknownUserNotFatal ==
  [][(/\ pc = "start" /\ pc' \notin {"start", "stopped"}
      /\ run_as_user # NoUser /\ ~io.user_ok) =>
       /\ pc' = "poll"
       /\ running_processes' = running_processes]_vars

\* C10 (as claimed): a cart.yaml that does not parse ends only that insert:
\* unless interrupted, nothing is launched, no exception leaves the loop and
\* it is back at monitor.poll with the mapping unchanged.
C10_MalformedManifestNotFatal ==
  [][(/\ pc = "start" /\ pc' \notin {"start", "stopped"}
      /\ io.yaml = "malformed") =>
       /\ pc' = "poll"
       /\ exc' = "none"
       /\ NothingLaunched]_vars

\* The step in which start_cart_process runs to its end.
StartStep == pc = "start" /\ pc' \notin {"start", "stopped"}
TrustedInsert == io.sig /\ io.trust /\ io.verifier = "exit0"
Printed(line) == \E i \in DOMAIN log : log[i] = line

\* C11 (as claimed): every trust failure of an insert (signature file missing,
\* trusted-signer file missing, verifier exits nonzero, verifier cannot be
\* run) is non-fatal: nothing is launched, no exception leaves the loop and
\* the loop is back at monitor.poll.
C11_TrustFailureNotFatal ==
  [][(StartStep /\ io.cart /\ ~TrustedInsert) =>
       /\ pc' = "poll"
       /\ exc' = "none"
       /\ NothingLaunched]_vars

\* The cause-specific line of each way an insert with a resolved mount ends
\* without a verdict of trusted.
ReasonOf(obs) ==
  IF ~obs.cart THEN "No cart.yaml detected"
  ELSE IF ~obs.sig THEN "ERROR: cart.yaml.sig missing"
  ELSE IF ~obs.trust THEN "ERROR: Trusted public key missing"
  ELSE IF obs.verifier = "nonzero" THEN "ERROR: Signature verification FAILED"
  ELSE "none"
Reasons ==
  {"No cart.yaml detected", "ERROR: cart.yaml.sig missing",
   "ERROR: Trusted public key missing", "ERROR: Signature verification FAILED"}

\* C12: when start_cart_process has returned without a launch, the lines it
\* printed hold, of the four reasons (no manifest, signature missing, trust
\* store missing, verification failed), exactly the one of its cause; so the
\* four reasons are distinct and "No cart.yaml detected" is printed only when
\* cart.yaml does not exist.
C12_DistinctReasons ==
  [](pc = "poll" /\ log # <<>> /\ log[Len(log)] # "Card not mounted"
        /\ log[1] = "SD card inserted" =>
       /\ \A r \in Reasons : Printed(r) <=> r = ReasonOf(io)
       /\ Printed("No cart.yaml detected") <=> ~io.cart)

\* C12 witness: an insert whose signature the verifier rejected has ended
\* with the verification-failed reason, and no process.
C12_Witness ==
  /\ pc = "poll"
  /\ io.cart /\ io.sig /\ io.trust /\ io.verifier = "nonzero"
  /\ log = <<"SD card inserted", "Found cart.yaml",
             "ERROR: Signature verification FAILED",
             "Execution blocked (untrusted cart)">>
  /\ procs = <<>>

\* C13: while an insert is handled the mapping changes only in the
\* registration of a process just launched for a cart.yaml that exists, is
\* trusted and has an exec field; an insert that ends elsewhere (mount not
\* resolved, no cart.yaml, failed trust, no exec) leaves the mapping exactly
\* as it was.
C13_NoSpawnNoChange ==
  /\ [][(Delivers /\ arrived'[1] = "insert") =>
          running_processes' = running_processes]_vars
  /\ [][(pc \in {"mount", "start", "register"}
           /\ running_processes' # running_processes) =>
          /\ pc = "register"
          /\ io.cart /\ TrustedInsert /\ io.yaml = "exec"
          /\ proc = Len(procs)
          /\ Printed("Executing")]_vars
  /\ [](pc = "register" => io.cart /\ TrustedInsert /\ io.yaml = "exec")

\* C13 witness: with one cart registered, a later insert without an exec
\* field has ended and the mapping still holds that cart only.
C13_Witness ==
  /\ pc = "poll"
  /\ last_event # NoEvent
  /\ log # <<>>
  /\ log[Len(log)] = "No 'exec' field in cart.yaml"
  /\ io.cart /\ TrustedInsert /\ io.yaml = "noexec"
  /\ Len(procs) = 1
  /\ \E n \in Nodes : /\ running_processes[n] = 1
                      /\ last_event[2] # n
                      /\ \A m \in Nodes \ {n} : running_processes[m] = NoProc

\* The rest of C14, common to the claim and its amendment: start_cart_process
\* is reached only with the mount of the inserted device resolved, and the
\* launched process is registered under that device and no other key changes.
C14_Order ==
  /\ [](pc \in {"mount", "start", "register"} =>
          last_event = <<"insert", device_node>>)
  /\ [](pc \in {"start", "register"} => mount_point \in MountsOf(device_node))
  /\ [][(pc = "register" /\ pc' \notin {"register", "stopped"}) =>
          /\ running_processes'[device_node] = proc
          /\ \A n \in Nodes \ {device_node} :
               running_processes'[n] = running_processes[n]]_vars
C14_Spawns ==
  /\ Len(procs') = Len(procs) + 1
  /\ \A p \in Spawned : procs'[p] = procs[p]
  /\ procs'[Len(procs')].cwd = mount_point
  /\ procs'[Len(procs')].state = "running"
  /\ proc' = Len(procs')
  /\ pc' = "register"
  /\ log' = <<"SD card inserted", "Found cart.yaml",
              "Signature verification OK", "Executing">>

\* C14 (as claimed): an insert whose mount resolves, whose cart.yaml exists
\* with an exec field and whose signature is trusted launches exactly one
\* process, in the mount path, and registers it under its device node, in the
\* order mount, verify, spawn.
C14_TrustedInsertSpawns ==
  /\ C14_Order
  /\ [][(StartStep /\ io.cart /\ TrustedInsert /\ io.yaml = "exec") =>
          C14_Spawns]_vars

\* C14 (amended): the same, for an insert handled with no run_as_user or with
\* a run_as_user whose account resolves.
C14_TrustedInsertSpawnsIfUserKnown ==
  /\ C14_Order
  /\ [][(StartStep /\ io.cart /\ TrustedInsert /\ io.yaml = "exec"
           /\ (run_as_user = NoUser \/ io.user_ok)) =>
          C14_Spawns]_vars

\* C14 witness: an insert of /dev/sda has launched one process in /mnt/sd as
\* the given account and registered it under /dev/sda.
C14_Witness ==
  /\ pc = "poll"
  /\ run_as_user # NoUser
  /\ last_event = <<"insert", "/dev/sda">>
  /\ log = <<"SD card inserted", "Found cart.yaml",
             "Signature verification OK", "Executing">>
  /\ Len(procs) = 1
  /\ procs[1].cwd = "/mnt/sd"
  /\ procs[1].uid = run_as_user
  /\ running_processes = [n \in Nodes |-> IF n = "/dev/sda" THEN 1 ELSE NoProc]

\* C18: get_mount_point makes at most timeout * 2 polls: each poll that finds
\* no mount is either followed by another, one further on in the count, or is
\* poll number timeout * 2, after which None is returned; a poll can always be
\* made and none raises.  The dispatcher then prints "Card not mounted",
\* launches nothing, and is back at monitor.poll without an exception.
C18_MountResolutionTerminates ==
  /\ [](pc = "mount" => polls < timeout * 2 /\ ENABLED MountPoll)
  /\ [][pc = "mount" =>
          /\ pc' \in {"mount", "start", "poll", "stopped"}
          /\ pc' = "mount" => polls' \in {polls, polls + 1}
          /\ pc' = "poll" =>
               /\ polls = timeout * 2 - 1
               /\ exc' = "none"
               /\ NothingLaunched
               /\ log' = <<"SD card inserted", "Card not mounted">>]_vars

\* C18 witness: an insert whose device never got mounted has been given up and
\* the loop waits for the next notification.
C18_Witness ==
  /\ pc = "poll"
  /\ arrived # NoEvent /\ arrived[1] = "insert" /\ ~repeated
  /\ last_event = arrived
  /\ log = <<"SD card inserted", "Card not mounted">>
  /\ exc = "none"
  /\ procs = <<>>

\* C19 (as claimed): wherever in the loop the interrupt arrives, every payload
\* launched by the daemon and still running then has been sent SIGTERM when
\* the handler is over.
C19_InterruptSignalsAllLive ==
  [][(pc \in InLoop /\ pc' = "stopped") =>
       \A p \in Spawned :
         procs[p].state = "running" =>
           /\ procs'[p].signals # <<>>
           /\ procs'[p].signals[1] = "SIGTERM"]_vars

\* C20: a notification that is filtered out (not an SD card, or an action
\* other than add/remove/change) changes neither last_event nor the mapping
\* and starts no handling; so inside the loop last_event is always the last
\* classified event, whatever filtered notifications came after it.
C20_FilteredChangesNothing ==
  /\ [][(pc = "poll" /\ pc' \in InLoop /\ arrived' = NoEvent) =>
          /\ last_event' = last_event
          /\ running_processes' = running_processes
          /\ pc' = "poll"
          /\ Len(procs') = Len(procs)]_vars
  /\ [](pc \in InLoop => last_event = prev_classified)

\* C20 witness: with a cart registered, a filtered notification has arrived
\* and the last-seen pair is still the insert of that cart.
C20_Witness ==
  /\ pc = "poll"
  /\ arrived = NoEvent
  /\ last_event # NoEvent /\ last_event[1] = "insert"
  /\ running_processes[last_event[2]] # NoProc

\* C15: for a notification of a qualifying device the classified event is
\* fixed by the raw action and has_media alone: add gives insert, remove gives
\* remove, change gives insert with media and remove without, and any other
\* action gives no event at all; the event carries the notification's device
\* node.
C15_ClassificationByActionAndMedia ==
  (args.fn = "classify" /\ result.done /\ is_sd_card(args.device)) =>
    LET d == args.device IN
      result.value =
        CASE d.action = "add" -> <<"insert", d.device_node>>
          [] d.action = "remove" -> <<"remove", d.device_node>>
          [] d.action = "change" /\ has_media(d) -> <<"insert", d.device_node>>
          [] d.action = "change" /\ ~has_media(d) -> <<"remove", d.device_node>>
          [] OTHER -> NoEvent

\* C15 witness: a change of a qualifying device without media has been
\* classified as a remove.
C15_Witness ==
  /\ args.fn = "classify"
  /\ result.done
  /\ is_sd_card(args.device)
  /\ args.device.action = "change"
  /\ ~has_media(args.device)
  /\ result.value = <<"remove", args.device.device_node>>

\* C16: kill_cart_process sends nothing, SIGTERM alone, or SIGTERM and then
\* SIGKILL; SIGKILL is sent exactly when the payload was running and did not
\* exit during the wait; a payload that is no longer running is sent nothing,
\* is left as it was, and the call returns.
C16_TermThenKillOnTimeout ==
  (args.fn = "kill_cart_process" /\ result.done) =>
    LET before == args.proc
        sent == result.value.signals
    IN /\ before.signals = <<>>
       /\ sent \in {<<>>, <<"SIGTERM">>, <<"SIGTERM", "SIGKILL">>}
       /\ before.state = "running" => sent # <<>>
       /\ sent = <<"SIGTERM", "SIGKILL">> <=>
            (before.state = "running" /\ args.answer = "ignores")
       /\ before.state # "running" =>
            /\ sent = <<>>
            /\ result.value.state = before.state

\* C16 witness: a running payload that exited within the wait has been sent
\* SIGTERM and nothing else.
C16_Witness ==
  /\ args.fn = "kill_cart_process"
  /\ result.done
  /\ args.proc.state = "running"
  /\ args.answer = "exits"
  /\ result.value.signals = <<"SIGTERM">>
  /\ result.value.state = "gone"

\* The candidates of one poll as C17 words them: the partitions the listing
\* of this poll holds, or the raw device node when it holds none.
EnumeratedCandidates(node, listing) ==
  LET found == found_partitions(node, listing)
  IN IF found = <<>> THEN <<node>> ELSE found
\* The mount path of the first of them, in their order, that the table holds.
FirstCandidateMounted(node, listing, table) ==
  first_mounted_by_candidate(table, EnumeratedCandidates(node, listing))

\* C17 (as claimed): each poll of get_mount_point returns the mount path of
\* the first candidate, in candidate order, that /proc/mounts holds, and goes
\* on only when it holds none of them.
C17_FirstCandidateInCandidateOrder ==
  (args.fn = "get_mount_point" /\ frame.attempt > 0) =>
    LET m == FirstCandidateMounted(args.device_node, frame.listing, frame.table)
    IN IF m # NoMount THEN result.done /\ result.value = m
       ELSE result.done => result.value = NoMount

\* C17 (amended): the candidates of a poll are every partition found by this
\* or an earlier listing, and the raw device node if the first poll found no
\* partition; the poll returns the mount path of the first line of
\* /proc/mounts, in file order, whose device is one of them, and goes on only
\* when no line is.
C17_FirstLineOfMountTable ==
  /\ [](args.fn = "get_mount_point" /\ frame.attempt > 0 =>
          LET lines == frame.table.lines
              hits == {k \in DOMAIN lines :
                         lines[k].device \in Range(frame.partitions)}
          IN IF hits # {}
               THEN /\ result.done
                    /\ \E k \in hits : /\ \A g \in hits : k <= g
                                       /\ result.value = lines[k].path
             ELSE result.done => result.value = NoMount)
  /\ [][(args.fn = "get_mount_point" /\ frame' # frame) =>
          LET found == Range(found_partitions(args.device_node, frame'.listing))
          IN Range(frame'.partitions) =
               Range(frame.partitions) \cup found
                 \cup (IF frame.attempt = 0 /\ found = {}
                         THEN {args.device_node} ELSE {})]_vars

\* C17 witness: both partitions are candidates, in the order 1, 2, and both
\* are mounted, partition 2 on the earlier line: its path has been returned.
C17_Witness ==
  /\ args.fn = "get_mount_point"
  /\ args.device_node = "/dev/sda"
  /\ result.done
  /\ frame.partitions = <<"/dev/sda1", "/dev/sda2">>
  /\ frame.table.lines = <<[device |-> "/dev/sda2", path |-> "/mnt/p2"],
                           [device |-> "/dev/sda1", path |-> "/mnt/p1"]>>
  /\ result.value = "/mnt/p2"

====
